---- MODULE Spec2Model ----
(***************************************************************************)
(* Model of the asynchronous video-render pipeline of 12stones-backend:    *)
(* the Celery task render_video (app/workers/video_tasks.py), the          *)
(* slideshow assembly it calls (app/utils/video.py), the object-storage    *)
(* upload helper (app/utils/storage.py) and the worker time limits         *)
(* (app/workers/celery_app.py).                                            *)
(*                                                                         *)
(* One video record is rendered.  pc is the position of the running        *)
(* execution of render_video; every external call (job tracker, speech     *)
(* synthesis, object storage, FFmpeg, image decoding) may succeed or       *)
(* raise.                                                                  *)
(***************************************************************************)
EXTENDS Integers, Sequences, FiniteSets, TLC

\* ---------------------------------------------------------------- bounds
MaxItems == 3        \* content items returned by the content query
MaxAttempts == 2     \* executions of render_video for the same video id
MaxPhotos == 4       \* photo items of the assembly scenarios
MaxSide == 5         \* largest image or canvas side given to resize_image_to_fit
MaxRequests == 3     \* concurrent regenerate_narrative requests of one project

AudioDurations == {2, 9}   \* probed length of the narration, in seconds

\* ------------------------------------------------------------- constants
Null == -1                 \* Python None in an integer column
NullStr == "null"          \* Python None in a text column

QUEUED == "queued"
RENDERING == "rendering"
COMPLETED == "completed"
FAILED == "failed"

TransitionDuration == 1    \* transition_duration=1.0 passed by render_video

\* exception messages (str(e))
NoVideoMsg == "Video not found"
NoNarrativeMsg == "Narrative not found"
NoContentMsg == "No content items found for video"
NoImagesMsg == "No images could be downloaded for video"
TrackerMsg == "job tracker unavailable"
SynthMsg == "speech synthesis failed"
NoKeyMsg == "ELEVENLABS_API_KEY not configured"
UploadMsg == "object storage put failed"
DecodeMsg == "cannot identify image file"
ProbeMsg == "ffprobe error"
SegmentMsg == "Failed to create segment"
ConcatMsg == "FFmpeg failed"
ConcatTimeoutMsg == "FFmpeg timed out after 10 minutes"
SubprocessMsg == "subprocess could not be run"
SoftLimitMsg == "SoftTimeLimitExceeded"

NoExc == [msg |-> NullStr, site |-> NullStr]

\* DEFAULT_VOICE_ID of elevenlabs.py
DefaultVoiceId == "pNInz6obpgDQGcFmaJgB"

\* video.voice_profile_id set or not, the VoiceProfile row found or not, and
\* its elevenlabs_voice_id (None, empty or a provider id)
VoiceProfiles ==
    [linked : BOOLEAN, exists : BOOLEAN,
     elevenlabs_voice_id : {NullStr, "", "cloned-voice"}]

\* the profile start_video_render requires: linked, existing, with a voice
LinkedVoice ==
    [linked |-> TRUE, exists |-> TRUE, elevenlabs_voice_id |-> "cloned-voice"]

\* a POST /render request that passed its checks and was answered
AcceptedRequest ==
    [pc |-> "responded", project_owned |-> TRUE, narrative_in_project |-> TRUE,
     voice_owned |-> TRUE, response |-> 200]

\* no POST /render request
NoRequest ==
    [pc |-> "none", project_owned |-> FALSE, narrative_in_project |-> FALSE,
     voice_owned |-> FALSE, response |-> 0]

NoImage == [w |-> 0, h |-> 0, W |-> 0, H |-> 0]
NoResized == [new_width |-> Null, new_height |-> Null, x |-> Null, y |-> Null,
              width |-> Null, height |-> Null, raised |-> FALSE]

VARIABLES
    video,           \* the committed row of the videos table
    pc,              \* position of the execution of render_video
    attempt,         \* number of the current execution (1..MaxAttempts)
    has_narrative,   \* the narrative of the video exists
    content_db,      \* the content_items rows of the project, in query order
    api_key,         \* settings.elevenlabs_api_key is configured
    content_items,   \* result of the content query of this execution
    i,               \* loop index of the download loop
    image_paths,     \* indices of the items whose image was downloaded
    failed_downloads,\* indices of the items whose download failure was logged
    audio_duration,  \* duration of the synthesized narration, Null before
    k,               \* loop index of the resize / segment loops
    video_result,    \* result of create_slideshow_with_transitions
    exc,             \* the exception caught by the except clause
    progress_log,    \* progress values written / reported by this execution
    storage,         \* objects in the bucket: [folder, id]
    next_uuid,       \* source of uuid.uuid4()
    soft_fired,      \* the soft time limit has been raised in this execution
    calls,           \* external calls made by this execution, by kind
    temp_dirs,       \* temporary directories that exist on the worker's disk
    segments,        \* the -t duration of each segment encoded, as <<num, den>>
    voice_profile,   \* the voice profile the video links to, as the task sees it
    voice_used,      \* voice_id passed to text_to_speech.convert, NullStr before
    diag,            \* len(str(e)) of a segment encoder failure, Null otherwise
    session_open,    \* the SessionLocal() of this execution is open
    request,         \* the POST /render request handled by start_video_render
    img,             \* source size and canvas given to resize_image_to_fit
    resized,         \* what resize_image_to_fit computed for img
    narratives,      \* rows of the narratives table of one project
    current_narrative_id,  \* projects.current_narrative_id (index of a row)
    regen            \* the regenerate_narrative requests in flight

vars == <<video, pc, attempt, has_narrative, content_db, api_key,
          content_items, i, image_paths, failed_downloads, audio_duration, k,
          video_result, exc, progress_log, storage, next_uuid, soft_fired,
          calls, temp_dirs, segments, voice_profile, voice_used, diag,
          session_open, request, img, resized, narratives,
          current_narrative_id, regen>>

\* state of the other endpoints and functions, which render_video never writes
apart == <<request, img, resized, narratives, current_narrative_id, regen>>

locals == <<i, image_paths, failed_downloads, audio_duration, k, video_result>>
inputs == <<has_narrative, content_db, api_key>>
hist == <<calls, temp_dirs, segments>>
bucket == <<storage, next_uuid>>

\* ---------------------------------------------------------------- helpers
Items ==
    [type : {"photo"}, readable : BOOLEAN, included : {TRUE},
     narrative_order : {Null}, taken_at : {Null}, created_at : {0}]
    \cup [type : {"video"}, readable : {TRUE}, included : {TRUE},
          narrative_order : {Null}, taken_at : {Null}, created_at : {0}]

\* rows get increasing created_at values as they are inserted
Stamp(rows) == [j \in 1..Len(rows) |-> [rows[j] EXCEPT !.created_at = j]]

\* asc().nullslast(): a NULL sorts after every value
NullsLast(x) == IF x = Null THEN 1000 ELSE x

\* ORDER BY narrative_order ASC NULLS LAST, taken_at ASC NULLS LAST,
\* created_at ASC
Before(a, b) ==
    LET na == NullsLast(a.narrative_order)
        nb == NullsLast(b.narrative_order)
        ta == NullsLast(a.taken_at)
        tb == NullsLast(b.taken_at)
    IN  \/ na < nb
        \/ na = nb /\ ta < tb
        \/ na = nb /\ ta = tb /\ a.created_at < b.created_at

\* ContentItem.included_in_narrative == True (deleted_at is never set by
\* any request of the repository), ordered by the ORDER BY clause
\* the rows in ORDER BY order: a row's place is one more than the number of
\* rows sorting before it
OrderBy(rows) ==
    [r \in 1..Len(rows) |->
        rows[CHOOSE j \in 1..Len(rows) :
                Cardinality({m \in 1..Len(rows) : Before(rows[m], rows[j])}) = r - 1]]

Query_unordered(db) == SelectSeq(db, LAMBDA it : it.included)

Query(db) == OrderBy(SelectSeq(db, LAMBDA it : it.included))

NoCalls ==
    [client |-> 0, convert |-> 0, put_narration |-> 0, put_video |-> 0, get |-> 0]

\* leaving the with-blocks of this execution that own the given directories
ExitTempDirs_keep(kinds) == temp_dirs

ExitTempDirs(kinds) ==
    {d \in temp_dirs : ~(d.attempt = attempt /\ d.kind \in kinds)}

\* entering "with tempfile.TemporaryDirectory() as temp_dir"
EnterTempDir(kind) == temp_dirs \cup {[attempt |-> attempt, kind |-> kind]}

AllKinds == {"job", "xfade", "plain"}

NoResult == [duration_seconds |-> Null, file_size_bytes |-> Null]

NewVideo ==
    [status |-> QUEUED, render_progress |-> 0, error_message |-> NullStr,
     r2_key |-> Null, duration_seconds |-> Null, file_size_bytes |-> Null,
     narration_r2_key |-> Null, render_started_at |-> Null,
     render_completed_at |-> Null]

\* no row of the videos table: start_video_render has not committed one
NoVideo == [NewVideo EXCEPT !.status = "none"]

\* raise: control goes to the except clause of render_video
Raise(m) ==
    /\ exc' = [msg |-> m, site |-> pc]
    /\ pc' = "except"

\* progress = 30 + int((i / total_items) * 10)
DownloadProgress_decreasing(idx, total) == 40 - ((idx * 10) \div total)

DownloadProgress(idx, total) == 30 + ((idx * 10) \div total)

\* the other endpoints are idle: the render request has been accepted
RenderOnly ==
    /\ request = AcceptedRequest
    /\ img = NoImage
    /\ resized = NoResized
    /\ narratives = <<>>
    /\ current_narrative_id = Null
    /\ regen = <<>>

\* ------------------------------------------------------------------- Init
Init ==
    /\ video = NewVideo
    /\ pc = "queued"
    /\ attempt = 1
    /\ has_narrative \in BOOLEAN
    /\ content_db \in {Stamp(rows) :
                          rows \in UNION {[1..n -> Items] : n \in 0..MaxItems}}
    /\ api_key \in BOOLEAN
    /\ content_items = <<>>
    /\ i = 0
    /\ image_paths = <<>>
    /\ failed_downloads = {}
    /\ audio_duration = Null
    /\ k = 0
    /\ video_result = NoResult
    /\ exc = NoExc
    /\ progress_log = <<>>
    /\ storage = {}
    /\ next_uuid = 1
    /\ soft_fired = FALSE
    /\ calls = NoCalls
    /\ temp_dirs = {}
    /\ segments = <<>>
    /\ voice_profile = LinkedVoice
    /\ voice_used = NullStr
    /\ diag = Null
    /\ session_open = FALSE
    /\ RenderOnly

\* ------------------------------------------------- progress/status channel
\* self.update_state(...) followed by update_video_progress(db, video, p, _)
Report(p, next) ==
    \/ /\ progress_log' = progress_log \o
              <<[ch |-> "tracker", p |-> p], [ch |-> "db", p |-> p]>>
       /\ video' = [video EXCEPT !.render_progress = p]
       /\ pc' = next
       /\ UNCHANGED exc
    \/ /\ Raise(TrackerMsg)
       /\ UNCHANGED <<video, progress_log>>

\* ------------------------------------------------------------ render_video
\* lines 35-46: open the session, load the record, status RENDERING, stamp
\* the start time
BeginRender ==
    /\ pc = "queued"
    /\ IF video = NoVideo
         THEN Raise(NoVideoMsg) /\ UNCHANGED video
         ELSE /\ video' = [video EXCEPT !.status = RENDERING,
                                        !.render_started_at = attempt]
              /\ pc' = "preparing"
              /\ UNCHANGED exc
    /\ UNCHANGED <<attempt, inputs, content_items, hist, locals, progress_log, bucket, soft_fired>>
    /\ session_open' = TRUE                     \* line 35: db = SessionLocal()
    /\ UNCHANGED <<apart, voice_profile, voice_used, diag>>

\* lines 48-49
ReportPreparing ==
    /\ pc = "preparing"
    /\ Report(0, "load")
    /\ UNCHANGED <<attempt, inputs, content_items, hist, locals, bucket, soft_fired>>
    /\ UNCHANGED <<apart, voice_profile, voice_used, diag, session_open>>

\* lines 51-71: narrative, content items, the working directory
LoadInputs_unchecked ==
    /\ pc = "load"
    /\ content_items' = Query(content_db)
    /\ temp_dirs' = EnterTempDir("job")
    /\ pc' = "generating_audio"
    /\ UNCHANGED <<video, attempt, inputs, locals, exc, progress_log, bucket,
                   soft_fired, calls, segments>>
    /\ UNCHANGED <<apart, voice_profile, voice_used, diag, session_open>>

LoadInputs ==
    /\ pc = "load"
    /\ IF ~has_narrative
         THEN Raise(NoNarrativeMsg) /\ UNCHANGED <<content_items, temp_dirs>>
         ELSE /\ content_items' = Query(content_db)
              /\ IF Query(content_db) = <<>>
                   THEN Raise(NoContentMsg) /\ UNCHANGED temp_dirs
                   ELSE /\ temp_dirs' = EnterTempDir("job")
                        /\ pc' = "generating_audio"
                        /\ UNCHANGED exc
    /\ UNCHANGED <<video, attempt, inputs, locals, progress_log, bucket,
                   soft_fired, calls, segments>>
    /\ UNCHANGED <<apart, voice_profile, voice_used, diag, session_open>>

\* lines 73-74
ReportGeneratingAudio ==
    /\ pc = "generating_audio"
    /\ Report(5, "synthesize")
    /\ UNCHANGED <<attempt, inputs, content_items, hist, locals, bucket, soft_fired>>
    /\ UNCHANGED <<apart, voice_profile, voice_used, diag, session_open>>

\* lines 79-87: voice_id stays None unless the video links a profile, the
\* profile row is found and its elevenlabs_voice_id is truthy
ResolveVoice(vp) ==
    IF vp.linked /\ vp.exists /\ vp.elevenlabs_voice_id \notin {NullStr, ""}
      THEN vp.elevenlabs_voice_id
      ELSE NullStr

\* elevenlabs.py line 31: effective_voice_id = voice_id or DEFAULT_VOICE_ID
EffectiveVoice_always_default(voice_id) == DefaultVoiceId

EffectiveVoice(voice_id) ==
    IF voice_id \in {NullStr, ""} THEN DefaultVoiceId ELSE voice_id

\* lines 76-95: synthesize_speech (elevenlabs.py 25-44) and the temp file
Synthesize_no_key_check ==
    /\ pc = "synthesize"
    /\ calls' = [calls EXCEPT !.client = @ + 1, !.convert = @ + 1]
    /\ \/ /\ api_key
          /\ audio_duration' \in AudioDurations
          /\ pc' = "audio_complete"
          /\ UNCHANGED exc
       \/ /\ Raise(IF api_key THEN SynthMsg ELSE NoKeyMsg)
          /\ UNCHANGED audio_duration
    /\ UNCHANGED <<video, attempt, inputs, content_items, i, image_paths,
                   failed_downloads, k, video_result, progress_log, bucket,
                   soft_fired, temp_dirs, segments>>
    /\ UNCHANGED <<apart, voice_profile, voice_used, diag, session_open>>

Synthesize ==
    /\ pc = "synthesize"
    /\ IF ~api_key
         THEN Raise(NoKeyMsg) /\ UNCHANGED <<audio_duration, calls, voice_used>>
         ELSE /\ calls' = [calls EXCEPT !.client = @ + 1, !.convert = @ + 1]
              /\ voice_used' = EffectiveVoice(ResolveVoice(voice_profile))
              /\ \/ /\ audio_duration' \in AudioDurations
                    /\ pc' = "audio_complete"
                    /\ UNCHANGED exc
                 \/ /\ Raise(SynthMsg)
                    /\ UNCHANGED audio_duration
    /\ UNCHANGED <<video, attempt, inputs, content_items, i, image_paths,
                   failed_downloads, k, video_result, progress_log, bucket,
                   soft_fired, temp_dirs, segments>>
    /\ UNCHANGED <<apart, voice_profile, diag, session_open>>

\* lines 97-98
ReportAudioComplete ==
    /\ pc = "audio_complete"
    /\ Report(25, "upload_audio")
    /\ UNCHANGED <<attempt, inputs, content_items, hist, locals, bucket, soft_fired>>
    /\ UNCHANGED <<apart, voice_profile, voice_used, diag, session_open>>

\* upload_file_to_r2: key = f"{folder}/{uuid4()}.{ext}", put_object(Key=key)
UploadKey(folder) == next_uuid

UploadFileToR2(folder) ==
    /\ storage' = storage \cup {[folder |-> folder, id |-> UploadKey(folder)]}
    /\ next_uuid' = next_uuid + 1

\* lines 100-108: upload the narration, commit narration_r2_key
UploadAudio_nocommit ==
    /\ pc = "upload_audio"
    /\ \/ /\ UploadFileToR2("narrations")
          /\ pc' = "downloading_content"
          /\ UNCHANGED <<exc, video>>
       \/ /\ Raise(UploadMsg)
          /\ UNCHANGED <<video, bucket>>
    /\ calls' = [calls EXCEPT !.put_narration = @ + 1]
    /\ UNCHANGED <<attempt, inputs, content_items, locals, progress_log,
                   soft_fired, temp_dirs, segments>>
    /\ UNCHANGED <<apart, voice_profile, voice_used, diag, session_open>>

UploadAudio ==
    /\ pc = "upload_audio"
    /\ \/ /\ UploadFileToR2("narrations")
          /\ video' = [video EXCEPT !.narration_r2_key = UploadKey("narrations")]
          /\ pc' = "downloading_content"
          /\ UNCHANGED exc
       \/ /\ Raise(UploadMsg)
          /\ UNCHANGED <<video, bucket>>
    /\ calls' = [calls EXCEPT !.put_narration = @ + 1]
    /\ UNCHANGED <<attempt, inputs, content_items, locals, progress_log,
                   soft_fired, temp_dirs, segments>>
    /\ UNCHANGED <<apart, voice_profile, voice_used, diag, session_open>>

\* lines 110-115
ReportDownloading ==
    /\ pc = "downloading_content"
    /\ Report(30, "download")
    /\ i' = 0
    /\ image_paths' = <<>>
    /\ UNCHANGED <<attempt, inputs, content_items, hist, failed_downloads, audio_duration, k,
                   video_result, bucket, soft_fired>>
    /\ UNCHANGED <<apart, voice_profile, voice_used, diag, session_open>>

\* the list the download loop iterates: the content_items loaded at line 65
ItemsInFlight_live == Query(content_db)

ItemsInFlight == content_items

\* lines 129-132: the except clause of one download
OnDownloadError_abort == Raise("download failed") /\ UNCHANGED <<i, failed_downloads>>

OnDownloadError ==
    /\ failed_downloads' = failed_downloads \cup {i}
    /\ i' = i + 1
    /\ UNCHANGED <<pc, exc>>

\* lines 117-132: one iteration of the download loop up to the progress update
DownloadItem ==
    /\ pc = "download"
    /\ IF i >= Len(ItemsInFlight)
         THEN /\ pc' = "check_images"
              /\ UNCHANGED <<i, image_paths, failed_downloads, exc, calls>>
         ELSE IF ItemsInFlight[i + 1].type # "photo"
           THEN /\ i' = i + 1
                /\ UNCHANGED <<pc, image_paths, failed_downloads, exc, calls>>
           ELSE /\ calls' = [calls EXCEPT !.get = @ + 1]
                /\ \/ /\ image_paths' = Append(image_paths, i)
                      /\ pc' = "download_report"
                      /\ UNCHANGED <<i, failed_downloads, exc>>
                   \/ /\ OnDownloadError
                      /\ UNCHANGED image_paths
    /\ UNCHANGED <<video, attempt, inputs, content_items, audio_duration, k,
                   video_result, progress_log, bucket, soft_fired, temp_dirs,
                   segments>>
    /\ UNCHANGED <<apart, voice_profile, voice_used, diag, session_open>>

\* lines 134-137: progress of the download loop
ReportDownloaded ==
    /\ pc = "download_report"
    /\ Report(DownloadProgress(i, Len(ItemsInFlight)), "download")
    /\ i' = IF pc' = "download" THEN i + 1 ELSE i
    /\ UNCHANGED <<attempt, inputs, content_items, hist, image_paths, failed_downloads,
                   audio_duration, k, video_result, bucket, soft_fired>>
    /\ UNCHANGED <<apart, voice_profile, voice_used, diag, session_open>>

\* lines 139-140
CheckImages ==
    /\ pc = "check_images"
    /\ IF image_paths = <<>> THEN Raise(NoImagesMsg)
       ELSE pc' = "rendering_video" /\ UNCHANGED exc
    /\ UNCHANGED <<video, attempt, inputs, content_items, hist, locals, progress_log, bucket, soft_fired>>
    /\ UNCHANGED <<apart, voice_profile, voice_used, diag, session_open>>

\* lines 142-143
ReportRendering ==
    /\ pc = "rendering_video"
    /\ Report(40, "assemble")
    /\ UNCHANGED <<attempt, inputs, content_items, hist, locals, bucket, soft_fired>>
    /\ UNCHANGED <<apart, voice_profile, voice_used, diag, session_open>>

\* ------------------------------------------------ app/utils/video.py
NumImages == Len(image_paths)

\* resize_image_to_fit raises when Image.open cannot decode the file
Readable(n) == content_items[image_paths[n] + 1].readable

\* duration_per_image < 1.0, with
\* duration_per_image = (audio_duration - transition_duration * (n - 1)) / n
TooShortForTransitions ==
    audio_duration - TransitionDuration * (NumImages - 1) < NumImages

\* duration_per_image = audio_duration / num_images, as the fraction
\* <<numerator, denominator>>
DurationPerImage_by_items == <<audio_duration, Len(content_items)>>

DurationPerImage == <<audio_duration, NumImages>>

Min(a, b) == IF a < b THEN a ELSE b

\* length of the concatenated segments: the sum of the -t values, which are
\* all over the same denominator
SegmentsLength ==
    LET Sum[n \in 0..Len(segments)] ==
            IF n = 0 THEN 0 ELSE Sum[n - 1] + segments[n][1]
    IN  IF segments = <<>> THEN 0 ELSE Sum[Len(segments)] \div segments[1][2]

\* the dict returned by create_slideshow: -shortest cuts the output to the
\* shorter of the concatenated segments and the audio
VideoResult ==
    [duration_seconds |-> Min(SegmentsLength, audio_duration),
     file_size_bytes |-> NumImages]

\* length of the xfade chain: n inputs of duration_per_image +
\* transition_duration, input number j faded in at offset
\* duration_per_image * j; with duration_per_image =
\* (audio_duration - transition_duration * (n - 1)) / n the last input ends
\* at n * duration_per_image + transition_duration
TransitionsLength ==
    (audio_duration - TransitionDuration * (NumImages - 1)) + TransitionDuration

\* the dict returned by create_slideshow_with_transitions on the xfade path
TransitionsResult ==
    [duration_seconds |-> Min(TransitionsLength, audio_duration),
     file_size_bytes |-> NumImages]

\* create_slideshow_with_transitions, lines 208-226
TransitionsEntry ==
    /\ pc = "assemble"
    /\ IF NumImages = 0 THEN Raise("No images provided")
       ELSE IF NumImages = 1 THEN pc' = "plain_entry" /\ UNCHANGED exc
       ELSE \/ Raise(ProbeMsg)
            \/ /\ pc' = IF TooShortForTransitions THEN "plain_entry"
                        ELSE "xfade_resize"
               /\ UNCHANGED exc
    /\ temp_dirs' = IF pc' = "xfade_resize" THEN EnterTempDir("xfade")
                    ELSE temp_dirs
    /\ k' = 0
    /\ UNCHANGED <<video, attempt, inputs, content_items, i, image_paths,
                   failed_downloads, audio_duration, video_result,
                   progress_log, bucket, soft_fired, calls, segments>>
    /\ UNCHANGED <<apart, voice_profile, voice_used, diag, session_open>>

\* create_slideshow_with_transitions, lines 228-234: resize loop
TransitionsResize ==
    /\ pc = "xfade_resize"
    /\ IF k >= NumImages
         THEN pc' = "xfade_ffmpeg" /\ UNCHANGED <<k, exc>>
         ELSE IF Readable(k + 1)
           THEN k' = k + 1 /\ UNCHANGED <<pc, exc>>
           ELSE Raise(DecodeMsg) /\ UNCHANGED k
    /\ UNCHANGED <<video, attempt, inputs, content_items, hist, i, image_paths, failed_downloads,
                   audio_duration, video_result, progress_log, bucket, soft_fired>>
    /\ UNCHANGED <<apart, voice_profile, voice_used, diag, session_open>>

\* create_slideshow_with_transitions, lines 236-283: the xfade command
TransitionsFfmpeg ==
    /\ pc = "xfade_ffmpeg"
    /\ \/ /\ pc' = "xfade_probe"                  \* returncode == 0
          /\ temp_dirs' = ExitTempDirs({"xfade"})
          /\ UNCHANGED exc
       \/ /\ pc' = "plain_entry"                  \* returncode != 0
          /\ UNCHANGED <<exc, temp_dirs>>
       \/ /\ Raise(SubprocessMsg)                 \* subprocess.run raises
          /\ UNCHANGED temp_dirs
    /\ UNCHANGED <<video, attempt, inputs, content_items, locals, progress_log,
                   bucket, soft_fired, calls, segments>>
    /\ UNCHANGED <<apart, voice_profile, voice_used, diag, session_open>>

\* create_slideshow_with_transitions, lines 285-297: size and probe of output
TransitionsProbe ==
    /\ pc = "xfade_probe"
    /\ \/ /\ video_result' = TransitionsResult
          /\ pc' = "video_complete"
          /\ UNCHANGED exc
       \/ /\ Raise(ProbeMsg)
          /\ UNCHANGED video_result
    /\ UNCHANGED <<video, attempt, inputs, content_items, hist, i, image_paths, failed_downloads,
                   audio_duration, k, progress_log, bucket, soft_fired>>
    /\ UNCHANGED <<apart, voice_profile, voice_used, diag, session_open>>

\* create_slideshow, lines 86-98
SlideshowEntry ==
    /\ pc = "plain_entry"
    /\ IF NumImages = 0 THEN Raise("No images provided")
       ELSE \/ Raise(ProbeMsg)
            \/ pc' = "plain_resize" /\ UNCHANGED exc
    /\ temp_dirs' = IF pc' = "plain_resize" THEN EnterTempDir("plain")
                    ELSE temp_dirs
    /\ k' = 0
    /\ UNCHANGED <<video, attempt, inputs, content_items, i, image_paths,
                   failed_downloads, audio_duration, video_result,
                   progress_log, bucket, soft_fired, calls, segments>>
    /\ UNCHANGED <<apart, voice_profile, voice_used, diag, session_open>>

\* create_slideshow, lines 100-104: resize loop
OnDecodeError == Raise(DecodeMsg) /\ UNCHANGED k

SlideshowResize ==
    /\ pc = "plain_resize"
    /\ IF k >= NumImages
         THEN pc' = "plain_segment" /\ k' = 0 /\ UNCHANGED exc
         ELSE IF Readable(k + 1)
           THEN k' = k + 1 /\ UNCHANGED <<pc, exc>>
           ELSE OnDecodeError
    /\ UNCHANGED <<video, attempt, inputs, content_items, hist, i, image_paths, failed_downloads,
                   audio_duration, video_result, progress_log, bucket, soft_fired>>
    /\ UNCHANGED <<apart, voice_profile, voice_used, diag, session_open>>

\* amounts of stderr a failed ffmpeg run may have written, in characters
StderrLengths == {120, 5000}

SegmentTail == 500     \* seg_result.stderr[-500:]

\* len(f"Failed to create segment {idx}: {stderr[-500:]}")
SegmentDiagnostic_whole(idx, n) ==
    27 + (IF idx < 10 THEN 1 ELSE 2) + n

SegmentDiagnostic(idx, n) ==
    27 + (IF idx < 10 THEN 1 ELSE 2) + Min(n, SegmentTail)

\* create_slideshow, lines 110-131: one segment per image
SlideshowSegment ==
    /\ pc = "plain_segment"
    /\ IF k >= NumImages
         THEN pc' = "plain_concat" /\ UNCHANGED <<k, exc, segments, diag>>
         ELSE \/ /\ k' = k + 1
                 /\ segments' = Append(segments, DurationPerImage)
                 /\ UNCHANGED <<pc, exc, diag>>
              \/ /\ Raise(SegmentMsg)
                 /\ \E n \in StderrLengths : diag' = SegmentDiagnostic(k, n)
                 /\ UNCHANGED <<k, segments>>
    /\ UNCHANGED <<video, attempt, inputs, content_items, i, image_paths,
                   failed_downloads, audio_duration, video_result,
                   progress_log, bucket, soft_fired, calls, temp_dirs>>
    /\ UNCHANGED <<apart, voice_profile, voice_used, session_open>>

\* create_slideshow, lines 133-168: concat and mux
SlideshowConcat ==
    /\ pc = "plain_concat"
    /\ \/ /\ pc' = "plain_probe"
          /\ temp_dirs' = ExitTempDirs({"plain"})
          /\ UNCHANGED exc
       \/ Raise(ConcatTimeoutMsg) /\ UNCHANGED temp_dirs
       \/ Raise(ConcatMsg) /\ UNCHANGED temp_dirs
    /\ UNCHANGED <<video, attempt, inputs, content_items, locals, progress_log,
                   bucket, soft_fired, calls, segments>>
    /\ UNCHANGED <<apart, voice_profile, voice_used, diag, session_open>>

\* create_slideshow, lines 170-184
SlideshowProbe ==
    /\ pc = "plain_probe"
    /\ \/ /\ video_result' = VideoResult
          /\ pc' = "video_complete"
          /\ temp_dirs' = ExitTempDirs({"xfade"})   \* return at line 283
          /\ UNCHANGED exc
       \/ /\ Raise(ProbeMsg)
          /\ UNCHANGED <<video_result, temp_dirs>>
    /\ UNCHANGED <<video, attempt, inputs, content_items, i, image_paths,
                   failed_downloads, audio_duration, k, progress_log, bucket,
                   soft_fired, calls, segments>>
    /\ UNCHANGED <<apart, voice_profile, voice_used, diag, session_open>>

\* ------------------------------------------- render_video, upload and end
\* lines 156-157
ReportVideoComplete ==
    /\ pc = "video_complete"
    /\ Report(85, "uploading")
    /\ UNCHANGED <<attempt, inputs, content_items, hist, locals, bucket, soft_fired>>
    /\ UNCHANGED <<apart, voice_profile, voice_used, diag, session_open>>

\* lines 160-161
ReportUploading ==
    /\ pc = "uploading"
    /\ Report(90, "upload_video")
    /\ UNCHANGED <<attempt, inputs, content_items, hist, locals, bucket, soft_fired>>
    /\ UNCHANGED <<apart, voice_profile, voice_used, diag, session_open>>

\* lines 163-180: upload the video, commit the result fields
UploadVideo_retry ==
    /\ pc = "upload_video"
    /\ \/ /\ UploadFileToR2("videos")
          /\ video' = [video EXCEPT !.r2_key = UploadKey("videos"),
                         !.duration_seconds = video_result.duration_seconds,
                         !.file_size_bytes = video_result.file_size_bytes,
                         !.status = COMPLETED,
                         !.render_completed_at = attempt,
                         !.render_progress = 100]
          /\ progress_log' = Append(progress_log, [ch |-> "db", p |-> 100])
          /\ pc' = "report_complete"
          /\ UNCHANGED exc
       \/ /\ IF calls.put_video = 0 THEN UNCHANGED <<pc, exc>>
             ELSE Raise(UploadMsg)
          /\ UNCHANGED <<video, bucket, progress_log>>
    /\ calls' = [calls EXCEPT !.put_video = @ + 1]
    /\ UNCHANGED <<attempt, inputs, content_items, locals, soft_fired,
                   temp_dirs, segments>>
    /\ UNCHANGED <<apart, voice_profile, voice_used, diag, session_open>>

UploadVideo ==
    /\ pc = "upload_video"
    /\ \/ /\ UploadFileToR2("videos")
          /\ video' = [video EXCEPT !.r2_key = UploadKey("videos"),
                         !.duration_seconds = video_result.duration_seconds,
                         !.file_size_bytes = video_result.file_size_bytes,
                         !.status = COMPLETED,
                         !.render_completed_at = attempt,
                         !.render_progress = 100]
          /\ progress_log' = Append(progress_log, [ch |-> "db", p |-> 100])
          /\ pc' = "report_complete"
          /\ UNCHANGED exc
       \/ /\ Raise(UploadMsg)
          /\ UNCHANGED <<video, bucket, progress_log>>
    /\ calls' = [calls EXCEPT !.put_video = @ + 1]
    /\ UNCHANGED <<attempt, inputs, content_items, locals, soft_fired,
                   temp_dirs, segments>>
    /\ UNCHANGED <<apart, voice_profile, voice_used, diag, session_open>>

\* line 182, then the return
ReportComplete ==
    /\ pc = "report_complete"
    /\ \/ /\ progress_log' = Append(progress_log, [ch |-> "tracker", p |-> 100])
          /\ pc' = "done"
          /\ temp_dirs' = ExitTempDirs(AllKinds)    \* return leaves line 71's with
          /\ UNCHANGED exc
       \/ /\ Raise(TrackerMsg)
          /\ UNCHANGED <<progress_log, temp_dirs>>
    /\ UNCHANGED <<video, attempt, inputs, content_items, locals, bucket,
                   soft_fired, calls, segments>>
    /\ session_open' = (pc' # "done")          \* finally: db.close()
    /\ UNCHANGED <<apart, voice_profile, voice_used, diag>>

\* lines 192-206: the exception leaves the with-blocks, then the record is
\* marked FAILED (best effort) and the exception re-raised
ExceptHandler_replacing ==
    /\ pc = "except"
    /\ temp_dirs' = ExitTempDirs(AllKinds)
    /\ \/ /\ video' = IF video = NoVideo THEN video
                      ELSE [video EXCEPT !.status = FAILED,
                                         !.error_message = exc.msg]
          /\ UNCHANGED exc
       \/ /\ UNCHANGED video
          /\ exc' = [msg |-> "database error", site |-> "except"]
    /\ pc' = "raised"
    /\ UNCHANGED <<attempt, inputs, content_items, locals, progress_log,
                   bucket, soft_fired, calls, segments>>
    /\ session_open' = FALSE
    /\ UNCHANGED <<apart, voice_profile, voice_used, diag>>

ExceptHandler ==
    /\ pc = "except"
    /\ temp_dirs' = ExitTempDirs(AllKinds)
    /\ \/ video' = IF video = NoVideo THEN video      \* line 196: if video
                   ELSE [video EXCEPT !.status = FAILED,
                                      !.error_message = exc.msg]
       \/ UNCHANGED video           \* query or commit raised: swallowed
    /\ pc' = "raised"
    /\ UNCHANGED <<attempt, inputs, content_items, locals, exc, progress_log,
                   bucket, soft_fired, calls, segments>>
    /\ session_open' = FALSE                    \* finally: db.close()
    /\ UNCHANGED <<apart, voice_profile, voice_used, diag>>

\* ------------------------------------------------ worker time limits
Running ==
    {"preparing", "load", "generating_audio", "synthesize", "audio_complete",
     "upload_audio", "downloading_content", "download", "download_report",
     "check_images", "rendering_video", "assemble", "xfade_resize",
     "xfade_ffmpeg", "xfade_probe", "plain_entry", "plain_resize",
     "plain_segment", "plain_concat", "plain_probe", "video_complete",
     "uploading", "upload_video", "report_complete"}

InDownloadTry ==
    /\ pc = "download"
    /\ i < Len(ItemsInFlight)
    /\ ItemsInFlight[i + 1].type = "photo"

\* task_soft_time_limit: SoftTimeLimitExceeded is raised inside the task
SoftTimeLimit ==
    /\ ~soft_fired
    /\ pc \in Running \cup {"except"}
    /\ soft_fired' = TRUE
    /\ IF pc = "except"
         THEN /\ pc' = "raised"
              /\ temp_dirs' = ExitTempDirs(AllKinds)
              /\ UNCHANGED <<exc, i, failed_downloads>>
         ELSE /\ UNCHANGED temp_dirs
              /\ IF InDownloadTry
                   THEN OnDownloadError
                   ELSE Raise(SoftLimitMsg) /\ UNCHANGED <<i, failed_downloads>>
    /\ UNCHANGED <<video, attempt, inputs, content_items, image_paths,
                   audio_duration, k, video_result, progress_log, bucket,
                   calls, segments>>
    /\ session_open' = (pc' # "raised" /\ session_open)
    /\ UNCHANGED <<apart, voice_profile, voice_used, diag>>

\* task_time_limit: the worker process running the task is killed
HardTimeLimit ==
    /\ soft_fired
    /\ pc \in Running \cup {"except"}
    /\ pc' = "killed"
    /\ UNCHANGED <<video, attempt, inputs, content_items, hist, locals, exc, progress_log, bucket, soft_fired>>
    /\ UNCHANGED <<apart, voice_profile, voice_used, diag, session_open>>

\* the external supervisor runs render_video again for the same video id
Retry ==
    /\ pc \in {"raised", "killed"}
    /\ attempt < MaxAttempts
    /\ attempt' = attempt + 1
    /\ pc' = "queued"
    /\ i' = 0
    /\ image_paths' = <<>>
    /\ failed_downloads' = {}
    /\ audio_duration' = Null
    /\ k' = 0
    /\ video_result' = NoResult
    /\ exc' = NoExc
    /\ progress_log' = <<>>
    /\ soft_fired' = FALSE
    /\ content_items' = <<>>
    /\ calls' = NoCalls
    /\ segments' = <<>>
    /\ UNCHANGED <<video, inputs, bucket, temp_dirs>>
    /\ voice_used' = NullStr
    /\ diag' = Null
    /\ session_open' = FALSE
    /\ UNCHANGED <<apart, voice_profile>>

Next ==
    \/ BeginRender
    \/ ReportPreparing
    \/ LoadInputs
    \/ ReportGeneratingAudio
    \/ Synthesize
    \/ ReportAudioComplete
    \/ UploadAudio
    \/ ReportDownloading
    \/ DownloadItem
    \/ ReportDownloaded
    \/ CheckImages
    \/ ReportRendering
    \/ TransitionsEntry
    \/ TransitionsResize
    \/ TransitionsFfmpeg
    \/ TransitionsProbe
    \/ SlideshowEntry
    \/ SlideshowResize
    \/ SlideshowSegment
    \/ SlideshowConcat
    \/ SlideshowProbe
    \/ ReportVideoComplete
    \/ ReportUploading
    \/ UploadVideo
    \/ ReportComplete
    \/ ExceptHandler
    \/ SoftTimeLimit
    \/ HardTimeLimit
    \/ Retry

Spec == Init /\ [][Next]_vars

\* ------------------------------------ concurrent edits of the content
\* update_content_item (routers/content.py 178-204): the only request of the
\* repository that changes a column of an existing content item the render
\* query reads; it sets included_in_narrative
UpdateContentItem ==
    /\ \E j \in 1..Len(content_db), flag \in BOOLEAN :
          content_db' = [content_db EXCEPT ![j].included = flag]
    /\ UNCHANGED <<video, pc, attempt, has_narrative, api_key, content_items,
                   locals, exc, progress_log, bucket, soft_fired, hist>>
    /\ UNCHANGED <<apart, voice_profile, voice_used, diag, session_open>>

EditItems ==
    [type : {"photo", "video"}, readable : {TRUE}, included : BOOLEAN,
     narrative_order : {Null}, taken_at : {Null}, created_at : {0}]

InitEdit ==
    /\ video = NewVideo
    /\ pc = "queued"
    /\ attempt = 1
    /\ has_narrative \in BOOLEAN
    /\ content_db \in {Stamp(rows) :
                          rows \in UNION {[1..n -> EditItems] : n \in 0..MaxItems}}
    /\ api_key = TRUE
    /\ content_items = <<>>
    /\ i = 0
    /\ image_paths = <<>>
    /\ failed_downloads = {}
    /\ audio_duration = Null
    /\ k = 0
    /\ video_result = NoResult
    /\ exc = NoExc
    /\ progress_log = <<>>
    /\ storage = {}
    /\ next_uuid = 1
    /\ soft_fired = FALSE
    /\ calls = NoCalls
    /\ temp_dirs = {}
    /\ segments = <<>>
    /\ voice_profile = LinkedVoice
    /\ voice_used = NullStr
    /\ diag = Null
    /\ session_open = FALSE
    /\ RenderOnly

NextEdit ==
    \/ BeginRender
    \/ ReportPreparing
    \/ LoadInputs
    \/ ReportGeneratingAudio
    \/ Synthesize
    \/ ReportAudioComplete
    \/ UploadAudio
    \/ ReportDownloading
    \/ DownloadItem
    \/ ReportDownloaded
    \/ CheckImages
    \/ ReportRendering
    \/ TransitionsEntry
    \/ TransitionsResize
    \/ TransitionsFfmpeg
    \/ TransitionsProbe
    \/ SlideshowEntry
    \/ SlideshowResize
    \/ SlideshowSegment
    \/ SlideshowConcat
    \/ SlideshowProbe
    \/ ReportVideoComplete
    \/ ReportUploading
    \/ UploadVideo
    \/ ReportComplete
    \/ ExceptHandler
    \/ UpdateContentItem

SpecEdit == InitEdit /\ [][NextEdit]_vars

\* ------------------------------------ the content query and the downloads
OrderedItems ==
    [type : {"photo", "video"}, readable : {TRUE}, included : {TRUE},
     narrative_order : {Null, 1, 2}, taken_at : {Null, 1}, created_at : {0}]

InitOrder ==
    /\ video = NewVideo
    /\ pc = "queued"
    /\ attempt = 1
    /\ has_narrative = TRUE
    /\ content_db \in {Stamp(rows) :
                          rows \in UNION {[1..n -> OrderedItems] : n \in 0..MaxItems}}
    /\ api_key = TRUE
    /\ content_items = <<>>
    /\ i = 0
    /\ image_paths = <<>>
    /\ failed_downloads = {}
    /\ audio_duration = Null
    /\ k = 0
    /\ video_result = NoResult
    /\ exc = NoExc
    /\ progress_log = <<>>
    /\ storage = {}
    /\ next_uuid = 1
    /\ soft_fired = FALSE
    /\ calls = NoCalls
    /\ temp_dirs = {}
    /\ segments = <<>>
    /\ voice_profile = LinkedVoice
    /\ voice_used = NullStr
    /\ diag = Null
    /\ session_open = FALSE
    /\ RenderOnly

\* render_video up to the call of the assembler
NextOrder ==
    \/ BeginRender
    \/ ReportPreparing
    \/ LoadInputs
    \/ ReportGeneratingAudio
    \/ Synthesize
    \/ ReportAudioComplete
    \/ UploadAudio
    \/ ReportDownloading
    \/ DownloadItem
    \/ ReportDownloaded
    \/ CheckImages
    \/ ReportRendering
    \/ ExceptHandler

SpecOrder == InitOrder /\ [][NextOrder]_vars

\* ------------------------------------ the pipeline on readable photos only
InitAssembly ==
    /\ video = NewVideo
    /\ pc = "queued"
    /\ attempt = 1
    /\ has_narrative = TRUE
    /\ content_db \in {[j \in 1..n |-> [type |-> "photo", readable |-> TRUE,
                                        included |-> TRUE, narrative_order |-> Null,
                                        taken_at |-> Null, created_at |-> j]] :
                          n \in 1..MaxPhotos}
    /\ api_key = TRUE
    /\ content_items = <<>>
    /\ i = 0
    /\ image_paths = <<>>
    /\ failed_downloads = {}
    /\ audio_duration = Null
    /\ k = 0
    /\ video_result = NoResult
    /\ exc = NoExc
    /\ progress_log = <<>>
    /\ storage = {}
    /\ next_uuid = 1
    /\ soft_fired = FALSE
    /\ calls = NoCalls
    /\ temp_dirs = {}
    /\ segments = <<>>
    /\ voice_profile = LinkedVoice
    /\ voice_used = NullStr
    /\ diag = Null
    /\ session_open = FALSE
    /\ RenderOnly

NextAssembly ==
    \/ BeginRender
    \/ ReportPreparing
    \/ LoadInputs
    \/ ReportGeneratingAudio
    \/ Synthesize
    \/ ReportAudioComplete
    \/ UploadAudio
    \/ ReportDownloading
    \/ DownloadItem
    \/ ReportDownloaded
    \/ CheckImages
    \/ ReportRendering
    \/ TransitionsEntry
    \/ TransitionsResize
    \/ TransitionsFfmpeg
    \/ TransitionsProbe
    \/ SlideshowEntry
    \/ SlideshowResize
    \/ SlideshowSegment
    \/ SlideshowConcat
    \/ SlideshowProbe
    \/ ReportVideoComplete
    \/ ReportUploading
    \/ UploadVideo
    \/ ReportComplete
    \/ ExceptHandler

SpecAssembly == InitAssembly /\ [][NextAssembly]_vars

\* ------------------------------------ routers/videos.py
PipelineStart ==
    /\ attempt = 1
    /\ content_items = <<>>
    /\ i = 0
    /\ image_paths = <<>>
    /\ failed_downloads = {}
    /\ audio_duration = Null
    /\ k = 0
    /\ video_result = NoResult
    /\ exc = NoExc
    /\ progress_log = <<>>
    /\ storage = {}
    /\ next_uuid = 1
    /\ soft_fired = FALSE
    /\ calls = NoCalls
    /\ temp_dirs = {}
    /\ segments = <<>>
    /\ voice_used = NullStr
    /\ diag = Null
    /\ session_open = FALSE

Photos(n) ==
    [j \in 1..n |-> [type |-> "photo", readable |-> TRUE, included |-> TRUE,
                     narrative_order |-> Null, taken_at |-> Null,
                     created_at |-> j]]

\* start_video_render, lines 117-143: the three ownership checks
StartCheck_lenient ==
    /\ request.pc = "received"
    /\ IF request.project_owned /\ request.narrative_in_project
         THEN request' = [request EXCEPT !.pc = "create"]
         ELSE request' = [request EXCEPT !.pc = "responded", !.response = 404]
    /\ UNCHANGED <<video, pc, attempt, inputs, content_items, hist, locals, exc,
                   progress_log, bucket, soft_fired, voice_profile, voice_used,
                   diag, session_open, img, resized, narratives,
                   current_narrative_id, regen>>

StartCheck ==
    /\ request.pc = "received"
    /\ IF request.project_owned /\ request.narrative_in_project
             /\ request.voice_owned
         THEN request' = [request EXCEPT !.pc = "create"]
         ELSE request' = [request EXCEPT !.pc = "responded", !.response = 404]
    /\ UNCHANGED <<video, pc, attempt, inputs, content_items, hist, locals, exc,
                   progress_log, bucket, soft_fired, voice_profile, voice_used,
                   diag, session_open, img, resized, narratives,
                   current_narrative_id, regen>>

\* start_video_render, lines 145-160: the QUEUED record is committed
StartCommit ==
    /\ request.pc = "create"
    /\ video' = NewVideo
    /\ request' = [request EXCEPT !.pc = "enqueue"]
    /\ UNCHANGED <<pc, attempt, inputs, content_items, hist, locals, exc,
                   progress_log, bucket, soft_fired, voice_profile, voice_used,
                   diag, session_open, img, resized, narratives,
                   current_narrative_id, regen>>

\* start_video_render, lines 162-176: render_video.delay, then the response;
\* delay raises when the broker cannot be reached
StartEnqueue ==
    /\ request.pc = "enqueue"
    /\ \/ /\ pc' = "queued"
          /\ request' = [request EXCEPT !.pc = "responded", !.response = 200]
       \/ /\ request' = [request EXCEPT !.pc = "responded", !.response = 500]
          /\ UNCHANGED pc
    /\ UNCHANGED <<video, attempt, inputs, content_items, hist, locals, exc,
                   progress_log, bucket, soft_fired, voice_profile, voice_used,
                   diag, session_open, img, resized, narratives,
                   current_narrative_id, regen>>

\* list_videos lines 45-47 and get_video lines 91-93: download_url
DownloadUrl_any_status(v) == v.r2_key

DownloadUrl(v) ==
    IF v.r2_key # Null /\ v.status = COMPLETED THEN v.r2_key ELSE Null

\* download_video, lines 205-210
DownloadVideo(v) ==
    IF v.status # COMPLETED \/ v.r2_key = Null
      THEN [code |-> 400, download_url |-> Null]
      ELSE [code |-> 200, download_url |-> v.r2_key]

InitStart ==
    /\ video = NoVideo
    /\ pc = "none"
    /\ has_narrative = TRUE
    /\ content_db \in {Photos(n) : n \in 1..MaxPhotos}
    /\ api_key = TRUE
    /\ voice_profile = LinkedVoice
    /\ PipelineStart
    /\ request \in [pc : {"received"}, project_owned : BOOLEAN,
                    narrative_in_project : BOOLEAN, voice_owned : BOOLEAN,
                    response : {0}]
    /\ img = NoImage
    /\ resized = NoResized
    /\ narratives = <<>>
    /\ current_narrative_id = Null
    /\ regen = <<>>

NextStart ==
    \/ StartCheck
    \/ StartCommit
    \/ StartEnqueue
    \/ BeginRender
    \/ ReportPreparing
    \/ LoadInputs
    \/ ReportGeneratingAudio
    \/ Synthesize
    \/ ReportAudioComplete
    \/ UploadAudio
    \/ ReportDownloading
    \/ DownloadItem
    \/ ReportDownloaded
    \/ CheckImages
    \/ ReportRendering
    \/ TransitionsEntry
    \/ TransitionsResize
    \/ TransitionsFfmpeg
    \/ TransitionsProbe
    \/ SlideshowEntry
    \/ SlideshowResize
    \/ SlideshowSegment
    \/ SlideshowConcat
    \/ SlideshowProbe
    \/ ReportVideoComplete
    \/ ReportUploading
    \/ UploadVideo
    \/ ReportComplete
    \/ ExceptHandler

SpecStart == InitStart /\ [][NextStart]_vars

\* ------------------------------------ the voice of the narration
InitVoice ==
    /\ video = NewVideo
    /\ pc = "queued"
    /\ has_narrative = TRUE
    /\ content_db \in {Photos(n) : n \in 1..MaxPhotos}
    /\ api_key = TRUE
    /\ voice_profile \in VoiceProfiles
    /\ PipelineStart
    /\ RenderOnly

SpecVoice == InitVoice /\ [][NextAssembly]_vars

\* ------------------------------------ resize_image_to_fit
\* no render job exists
RenderIdle ==
    /\ video = NoVideo
    /\ pc = "none"
    /\ has_narrative = FALSE
    /\ content_db = <<>>
    /\ api_key = FALSE
    /\ voice_profile = LinkedVoice
    /\ PipelineStart
    /\ request = NoRequest

\* video.py lines 28-50, with / as exact division and int() as floor;
\* Image.resize raises ValueError when a side of the new size is below 1
ResizeImageToFit(w, h, W, H) ==
    LET wider == w * H > W * h                  \* img_ratio > target_ratio
        new_width == IF wider THEN W ELSE (H * w) \div h
        new_height == IF wider THEN (W * h) \div w ELSE H
    IN  IF new_width < 1 \/ new_height < 1
          THEN [new_width |-> new_width, new_height |-> new_height,
                x |-> Null, y |-> Null, width |-> Null, height |-> Null,
                raised |-> TRUE]
          ELSE [new_width |-> new_width, new_height |-> new_height,
                x |-> (W - new_width) \div 2, y |-> (H - new_height) \div 2,
                width |-> W, height |-> H, raised |-> FALSE]

\* one call of resize_image_to_fit
Resize ==
    /\ resized = NoResized
    /\ resized' = ResizeImageToFit(img.w, img.h, img.W, img.H)
    /\ UNCHANGED <<video, pc, attempt, inputs, content_items, hist, locals, exc,
                   progress_log, bucket, soft_fired, voice_profile, voice_used,
                   diag, session_open, request, img, narratives,
                   current_narrative_id, regen>>

InitResize ==
    /\ RenderIdle
    /\ img \in [w : 1..MaxSide, h : 1..MaxSide, W : 1..MaxSide, H : 1..MaxSide]
    /\ resized = NoResized
    /\ narratives = <<>>
    /\ current_narrative_id = Null
    /\ regen = <<>>

NextResize == Resize

SpecResize == InitResize /\ [][NextResize]_vars

\* ------------------------------------ routers/narratives.py
RECURSIVE MaxVersion(_)
MaxVersion(rows) ==
    IF rows = <<>> THEN 0
    ELSE LET rest == MaxVersion(Tail(rows))
         IN  IF Head(rows).version > rest THEN Head(rows).version ELSE rest

\* regenerate_narrative, lines 227-273: the checks, then the latest version
\* of the project is read and new_version computed
RegenerateRead(r) ==
    /\ regen[r].pc = "start"
    /\ \/ regen' = [regen EXCEPT ![r] = [pc |-> "generating",
                       new_version |-> MaxVersion(narratives) + 1]]
       \/ regen' = [regen EXCEPT ![r].pc = "rejected"]   \* 404, 400 or 503
    /\ UNCHANGED <<video, pc, attempt, inputs, content_items, hist, locals, exc,
                   progress_log, bucket, soft_fired, voice_profile, voice_used,
                   diag, session_open, request, img, resized, narratives,
                   current_narrative_id>>

\* lines 275-287: the generation call raises anthropic.APIError, answer 503
RegenerateFail(r) ==
    /\ regen[r].pc = "generating"
    /\ regen' = [regen EXCEPT ![r].pc = "failed"]
    /\ UNCHANGED <<video, pc, attempt, inputs, content_items, hist, locals, exc,
                   progress_log, bucket, soft_fired, voice_profile, voice_used,
                   diag, session_open, request, img, resized, narratives,
                   current_narrative_id>>

\* lines 289-323: the narrative row and current_narrative_id are committed
RegenerateCommit(r) ==
    /\ regen[r].pc = "generating"
    /\ narratives' = Append(narratives, [version |-> regen[r].new_version,
                                         by |-> r])
    /\ current_narrative_id' = Len(narratives) + 1
    /\ regen' = [regen EXCEPT ![r].pc = "done"]
    /\ UNCHANGED <<video, pc, attempt, inputs, content_items, hist, locals, exc,
                   progress_log, bucket, soft_fired, voice_profile, voice_used,
                   diag, session_open, request, img, resized>>

InitRegenerate ==
    /\ RenderIdle
    /\ img = NoImage
    /\ resized = NoResized
    /\ \/ narratives = <<>> /\ current_narrative_id = Null
       \/ narratives = <<[version |-> 1, by |-> 0]>> /\ current_narrative_id = 1
    /\ regen = [r \in 1..MaxRequests |-> [pc |-> "start", new_version |-> 0]]

NextRegenerate ==
    \/ \E r \in 1..MaxRequests : RegenerateRead(r)
    \/ \E r \in 1..MaxRequests : RegenerateFail(r)
    \/ \E r \in 1..MaxRequests : RegenerateCommit(r)

SpecRegenerate == InitRegenerate /\ [][NextRegenerate]_vars

\* ------------------------------------------------------------------ claims
Ended == {"done", "raised"}

Downloaded == {image_paths[n] : n \in 1..Len(image_paths)}

PhotoIndexes == {j \in 0..(Len(content_items) - 1) : content_items[j + 1].type = "photo"}

AfterDownloadStage ==
    {"rendering_video", "assemble", "xfade_resize", "xfade_ffmpeg",
     "xfade_probe", "plain_entry", "plain_resize", "plain_segment",
     "plain_concat", "plain_probe", "video_complete", "uploading",
     "upload_video", "report_complete", "done"}

\* C1: within one execution of render_video the progress values written to
\* the video record and reported to the job tracker, in the order they are
\* issued, never decrease.
C1_ProgressNonDecreasing ==
    \A a, b \in 1..Len(progress_log) :
        a < b => progress_log[a].p <= progress_log[b].p

\* an execution that completed with at least two downloaded images and a
\* logged download failure
C1_Witness ==
    /\ pc = "done"
    /\ Len(image_paths) >= 2
    /\ failed_downloads # {}

\* C2: when an execution has ended, render_progress is 100 exactly when the
\* status is COMPLETED.
C2_HundredIffCompleted ==
    pc \in Ended => (video.render_progress = 100 <=> video.status = COMPLETED)

\* C3: in every state of the video record the output fields are set only if
\* the status is COMPLETED, and a FAILED record has all three null.
C3_OutputOnlyWhenCompleted ==
    /\ (video.r2_key # Null \/ video.duration_seconds # Null
            \/ video.file_size_bytes # Null) => video.status = COMPLETED
    /\ video.status = FAILED =>
            /\ video.r2_key = Null
            /\ video.duration_seconds = Null
            /\ video.file_size_bytes = Null

\* C4: an execution in which a step raised ends with status FAILED, the
\* exception's message as error_message, no completion time, and the
\* original exception propagated.
C4_FailureRecorded ==
    pc = "raised" =>
        /\ exc # NoExc
        /\ video.status = FAILED
        /\ video.error_message = exc.msg
        /\ video.render_completed_at = Null

\* C5: a progress report to the job tracker that raises never becomes the
\* error that fails the render.
C5_ReportFailureNeverFails ==
    exc.msg # TrackerMsg

\* C6: a failure of the crossfade path that the plain assembly does not
\* share (the xfade command or the probe of its output raising) falls back
\* to create_slideshow and never becomes the error that fails the render.
C6_TransitionFailureFallsBack ==
    ~(exc.site \in {"xfade_ffmpeg", "xfade_probe"} /\ exc.msg # SoftLimitMsg)

\* C7: a failed download of one item is logged and skipped, every remaining
\* item is still attempted, and the download stage itself fails the job
\* exactly when no image was downloaded.
C7_DownloadFailureSkipsItem ==
    /\ (exc.site \in {"download", "check_images"} /\ exc.msg # SoftLimitMsg)
          => (exc.msg = NoImagesMsg /\ image_paths = <<>>)
    /\ (pc = "check_images" \/ exc.site = "check_images")
          => (Downloaded \cup failed_downloads = PhotoIndexes /\ i = Len(content_items))
    /\ pc \in AfterDownloadStage => image_paths # <<>>
    /\ (pc = "except" /\ exc.msg = NoImagesMsg) => image_paths = <<>>

\* a completed execution in which one download failed
C7_Witness ==
    /\ pc = "done"
    /\ failed_downloads # {}
    /\ image_paths # <<>>

\* C8: an image the normalizer cannot decode is excluded from the render:
\* while another downloaded image is readable, the decode error never
\* becomes the error that fails the render.
C8_DecodeFailureSkipsImage ==
    ~(exc.msg = DecodeMsg /\ \E n \in 1..Len(image_paths) : Readable(n))

\* C9: however many executions run for the video id, the bucket holds at
\* most one narration object and at most one video object for it.
C9_RetryOverwritesKeys ==
    /\ Cardinality({o \in storage : o.folder = "narrations"}) <= 1
    /\ Cardinality({o \in storage : o.folder = "videos"}) <= 1

\* C10: an execution terminated by the hard time limit leaves the video
\* record in FAILED.
C10_KilledEndsFailed ==
    pc = "killed" => video.status = FAILED

BeforeSynthesis == {"queued", "preparing", "load", "except", "raised", "killed"}

StageOf(p) ==
    CASE p \in {"queued"} -> 0
      [] p \in {"preparing", "load"} -> 1
      [] p \in {"generating_audio", "synthesize", "audio_complete",
                "upload_audio"} -> 2
      [] p \in {"downloading_content", "download", "download_report",
                "check_images"} -> 3
      [] p \in {"rendering_video", "assemble", "xfade_resize", "xfade_ffmpeg",
                "xfade_probe", "plain_entry", "plain_resize", "plain_segment",
                "plain_concat", "plain_probe", "video_complete"} -> 4
      [] p \in {"uploading", "upload_video"} -> 5
      [] p \in {"report_complete", "done"} -> 6
      [] OTHER -> 7

\* C13: the stages are passed in the fixed order, one at a time, with the
\* failure exit as the only other way out, and inside one execution the
\* persisted status only moves to RENDERING at the start and from RENDERING
\* to COMPLETED or FAILED afterwards.
C13_StageOrder ==
    [][/\ (StageOf(pc) < 7 /\ StageOf(pc') < 7)
              => StageOf(pc') \in {StageOf(pc), StageOf(pc) + 1}
       /\ (StageOf(pc) < 6 /\ StageOf(pc') = 7) => pc' \in {"except", "killed"}
       /\ pc = "queued" => video.status' \in {video.status, RENDERING}
       /\ pc # "queued" =>
              \/ video.status' = video.status
              \/ /\ video.status = RENDERING
                 /\ video.status' \in {COMPLETED, FAILED}]_vars

\* C14: after an execution has committed COMPLETED or FAILED, no later step
\* of that execution changes the status.
C14_TerminalStatus ==
    [][(video.status \in {COMPLETED, FAILED} /\ pc # "queued")
            => video.status' = video.status]_vars

\* C15: error_message is set only while the status is FAILED.
C15_ErrorOnlyWhenFailed ==
    video.status # FAILED => video.error_message = NullStr

OwnDirs == {d \in temp_dirs : d.attempt = attempt}

InsideJobDir ==
    (Running \ {"preparing", "load"}) \cup {"except", "killed"}

AfterLoad == (Running \ {"preparing", "load"}) \cup {"done", "except", "raised"}

C18_NarrationKeptBeforeDownloads ==
    /\ [](calls.get > 0
            => /\ calls.put_narration = 1
               /\ video.narration_r2_key # Null
               /\ [folder |-> "narrations", id |-> video.narration_r2_key]
                      \in storage)
    /\ [][(video.narration_r2_key # Null /\ pc # "upload_audio")
            => video.narration_r2_key' = video.narration_r2_key]_vars

\* an execution that failed after a download, the narration key still set
C18_Witness ==
    /\ pc = "raised"
    /\ video.status = FAILED
    /\ calls.get > 0
    /\ video.narration_r2_key # Null

\* C19: when create_slideshow has encoded its segments there is one per
\* image, each of duration audio_duration / n, and they sum to the audio
\* duration; 3 images and 9 s give 3 s each; the result reports the audio
\* duration.
C19_SegmentsShareAudio ==
    /\ pc \in {"plain_concat", "plain_probe"} =>
          /\ Len(segments) = NumImages
          /\ \A n \in 1..Len(segments) :
                segments[n][1] * NumImages = audio_duration * segments[n][2]
          /\ SegmentsLength = audio_duration
          /\ (NumImages = 3 /\ audio_duration = 9) =>
                \A n \in 1..Len(segments) : segments[n][1] = 3 * segments[n][2]
    /\ (pc = "video_complete" /\ segments # <<>>) =>
          video_result.duration_seconds = audio_duration

\* create_slideshow ran on 3 of 3 images with a 9 s narration
C19_Witness ==
    /\ pc = "video_complete"
    /\ Len(segments) = 3
    /\ audio_duration = 9
    /\ failed_downloads = {}

\* C20: when some downloads failed, the assembled video still has the
\* length of the narration.
C20_ReducedCountKeepsLength ==
    (video_result # NoResult /\ failed_downloads # {}) =>
        video_result.duration_seconds = audio_duration

\* the indices of the loaded items, in loop order
LoopIndexes == [j \in 1..Len(content_items) |-> j - 1]

\* C22: the list handed to the assembler holds exactly the photo items of
\* the loaded sequence whose download did not fail, in the order of that
\* sequence, which is the included rows in ORDER BY order.
C22_ImagesAreDownloadedPhotosInOrder ==
    pc \in {"check_images", "rendering_video", "assemble"} =>
        /\ image_paths =
              SelectSeq(LoopIndexes,
                        LAMBDA j : /\ content_items[j + 1].type = "photo"
                                   /\ j \notin failed_downloads)
        /\ \A a, b \in 1..Len(content_items) :
              a < b => Before(content_items[a], content_items[b])
        /\ {it.created_at : it \in {content_items[a] : a \in 1..Len(content_items)}}
              = {content_db[a].created_at : a \in {b \in 1..Len(content_db) :
                                                       content_db[b].included}}

\* two images reach the assembler from a sequence the query had to reorder,
\* with a video item or a failed download left out
C22_Witness ==
    /\ pc = "assemble"
    /\ Len(image_paths) >= 2
    /\ content_items # SelectSeq(content_db, LAMBDA it : it.included)
    /\ Len(image_paths) < Len(content_items)

\* C21: resize_image_to_fit returns a W x H image whose scaled content lies
\* inside the canvas, touches it in one direction, is pasted at non-negative
\* offsets and keeps the source aspect ratio up to integer rounding.
C21_ResizeFitsCanvas ==
    resized # NoResized =>
        /\ ~resized.raised
        /\ resized.width = img.W /\ resized.height = img.H
        /\ 1 <= resized.new_width /\ resized.new_width <= img.W
        /\ 1 <= resized.new_height /\ resized.new_height <= img.H
        /\ resized.new_width = img.W \/ resized.new_height = img.H
        /\ resized.x >= 0 /\ resized.y >= 0
        /\ resized.new_width = img.W =>
              /\ resized.new_height * img.w <= img.W * img.h
              /\ (resized.new_height + 1) * img.w > img.W * img.h
        /\ resized.new_height = img.H /\ resized.new_width # img.W =>
              /\ resized.new_width * img.h <= img.H * img.w
              /\ (resized.new_width + 1) * img.h > img.H * img.w

\* C23: a task is in the queue or running only if the QUEUED record was
\* committed, the record is untouched until the worker's first step, and a
\* request failing an ownership check leaves no record and no task.
C23_EnqueuedAfterQueuedCommit ==
    /\ pc # "none" => video # NoVideo
    /\ (pc \in {"none", "queued"} /\ video # NoVideo) => video = NewVideo
    /\ request.response = 200 => (video # NoVideo /\ pc # "none")
    /\ (~request.project_owned \/ ~request.narrative_in_project
           \/ ~request.voice_owned \/ request.response = 404)
          => (video = NoVideo /\ pc = "none")

\* the request was accepted and its task waits in the queue
C23_Witness ==
    /\ request.response = 200
    /\ pc = "queued"
    /\ video.status = QUEUED

\* C24: within one execution the synthesizer, the narration upload and the
\* video upload are called at most once, and a storage read is made only
\* for an item that was not attempted before.
C24_NoInternalRetry ==
    /\ [](/\ calls.client <= 1 /\ calls.convert <= 1
          /\ calls.put_narration <= 1 /\ calls.put_video <= 1
          /\ calls.get <= Len(image_paths) + Cardinality(failed_downloads))
    /\ [][calls'.get > calls.get =>
             /\ calls'.get = calls.get + 1
             /\ i \notin Downloaded \cup failed_downloads
             /\ i \in {image_paths'[n] : n \in 1..Len(image_paths')}
                       \cup failed_downloads']_vars

\* an execution that failed on its only video upload after a failed download
C24_Witness ==
    /\ pc = "raised"
    /\ exc = [msg |-> UploadMsg, site |-> "upload_video"]
    /\ calls.put_video = 1
    /\ failed_downloads # {}

\* C25: list, get and download give a URL only for a COMPLETED record with
\* r2_key set, and the download endpoint answers 400 in every other status.
C25_UrlOnlyWhenCompleted ==
    /\ DownloadUrl(video) # Null
          => (video.status = COMPLETED /\ video.r2_key # Null)
    /\ DownloadVideo(video).download_url # Null
          => (video.status = COMPLETED /\ video.r2_key # Null)
    /\ video.status \in {QUEUED, RENDERING, FAILED}
          => (DownloadVideo(video).code = 400 /\ DownloadUrl(video) = Null)

\* a FAILED record that still carries the key of an uploaded video
C25_Witness ==
    /\ video.status = FAILED
    /\ video.r2_key # Null
    /\ DownloadVideo(video).code = 400

C27_CrossfadeLengthIsAudio ==
    pc = "xfade_probe" => TransitionsLength = audio_duration

\* C28: the voice passed to the provider is the profile's voice id exactly
\* when the profile is linked, found and has a non-empty id, the default
\* voice otherwise, and the synthesis step fails only on the provider call.
C28_VoiceResolution ==
    /\ calls.convert > 0 => voice_used # NullStr
    /\ voice_used # NullStr =>
          voice_used =
             (IF /\ voice_profile.linked
                 /\ voice_profile.exists
                 /\ voice_profile.elevenlabs_voice_id # NullStr
                 /\ voice_profile.elevenlabs_voice_id # ""
                THEN voice_profile.elevenlabs_voice_id
                ELSE DefaultVoiceId)
    /\ exc.site = "synthesize" => (exc.msg = SynthMsg /\ calls.convert = 1)

\* a render completed with the default voice for a profile without voice id
C28_Witness ==
    /\ pc = "done"
    /\ voice_profile.linked /\ voice_profile.exists
    /\ voice_profile.elevenlabs_voice_id = ""
    /\ voice_used = DefaultVoiceId

\* C29: the failure handler re-raises the exception it caught, whether or
\* not its own write succeeded, and the session is closed once the execution
\* has returned or raised.
C29_HandlerKeepsOriginalError ==
    /\ [](/\ pc \in {"done", "raised"} => ~session_open
          /\ pc = "raised" => exc # NoExc
          /\ pc \in Running => session_open)
    /\ [][pc = "except" => exc' = exc]_vars

\* the handler's own write failed and the upload error was still raised
C29_Witness ==
    /\ pc = "raised"
    /\ ~soft_fired
    /\ exc = [msg |-> UploadMsg, site |-> "upload_audio"]
    /\ video.status = RENDERING
    /\ ~session_open

AllRegenerated ==
    \A r \in 1..MaxRequests : regen[r].pc \in {"done", "failed", "rejected"}

\* C30: narrative versions are strictly increasing in creation order, and
\* when every request has finished current_narrative_id is the narrative
\* with the highest version.
C30_VersionsIncrease ==
    /\ \A a, b \in 1..Len(narratives) :
          a < b => narratives[a].version < narratives[b].version
    /\ (AllRegenerated /\ narratives # <<>>) =>
          narratives[current_narrative_id].version = MaxVersion(narratives)

====
